---- MODULE Spec2Model ----
(***************************************************************************)
(* Model of two parts of the tlsn repository:                              *)
(*   - find_ranges and the commitment tail of main in                      *)
(*     tlsn/examples/twitter_dm.rs;                                        *)
(*   - the Generator / Evaluator / Validator / Compressor role traits of   *)
(*     mpc/mpc-aio/src/protocol/garble/mod.rs, whose garbled-circuit       *)
(*     phases are type parameters (gc_state::Full, Partial, Evaluated,     *)
(*     Compressed) and are modelled here as phase tags.                    *)
(* Offsets are u32 in the source; the transcripts of the model are far     *)
(* below 2^32 bytes, so the `as u32` casts are the identity here.          *)
(***************************************************************************)
EXTENDS Integers, Sequences, FiniteSets, TLC

\* ---------------------------------------------------------------- bounds
\* longest transcript given to find_ranges
MaxLen == 4
\* most secrets in the sub_seq slice
MaxSecrets == 2
\* longest secret (0 = the empty secret is included)
MaxSecretLen == 2
\* longest sent transcript in the run of main
MainMaxLen == 2
\* longest token (access_token, auth_token, csrf_token) in the run of main
MainMaxTokenLen == 1
\* longest received transcript in the run of main
MaxRecvLen == 1
\* number of logical circuits driven through the role operations
MaxCircuits == 2

\* Byte values. Substring search only compares bytes for equality, so two
\* distinct values produce every match / overlap / nesting pattern.
Bytes == {0, 1}

RECURSIVE SeqsUpTo(_, _)
SeqsUpTo(S, n) ==
  IF n = 0 THEN {<< >>}
  ELSE LET shorter == SeqsUpTo(S, n - 1)
       IN  shorter \cup {Append(q, x) : q \in shorter, x \in S}

RECURSIVE SeqsOfLen(_, _)
SeqsOfLen(S, n) ==
  IF n = 0 THEN {<< >>}
  ELSE {Append(q, x) : q \in SeqsOfLen(S, n - 1), x \in S}

VARIABLES
  seq,            \* find_ranges: the transcript bytes (&[u8])
  sub_seq,        \* find_ranges: the secrets (&[&[u8]]), in slice order
  pc,             \* find_ranges: "call" | "returned" | "panicked"
  public_ranges,  \* find_ranges: first component of the returned tuple
  private_ranges, \* find_ranges: second component of the returned tuple
  mpc,            \* main: position in the notarization tail
  cursor,         \* main: index into public_ranges.chain(private_ranges)
  sent_commits,   \* main: ranges accepted by add_commitment_sent, in order
  recv_len,       \* main: prover.recv_transcript().data().len()
  recv_commits,   \* main: ranges accepted by add_commitment_recv, in order
  finalized,      \* main: prover.finalize() returned Ok
  file,           \* main: twitter_dm.json: "absent" | "created" | "written"
  failed_at,      \* main: the step whose unwrap panicked, or "none"
  gc,             \* garble: phase tag of each logical circuit
  log,            \* garble: per circuit, the set of (operation, result) done
  ret             \* garble: the value the last role operation returned

vars == << seq, sub_seq, pc, public_ranges, private_ranges,
           mpc, cursor, sent_commits, recv_len, recv_commits, finalized,
           file, failed_at, gc, log, ret >>

rangeVars == << seq, sub_seq, pc, public_ranges, private_ranges >>
mainVars  == << mpc, cursor, sent_commits, recv_len, recv_commits, finalized,
                file, failed_at >>
garbleVars == << gc, log, ret >>

\* ------------------------------------------------------------ find_ranges

\* std::ops::Range<u32>: the half-open interval [start, end)
Range(a, b) == [start |-> a, end |-> b]

\* seq.windows(n) for n > 0: every contiguous slice of n bytes, in order
windows(s, n) ==
  IF n > Len(s) THEN << >>
  ELSE [i \in 1..(Len(s) - n + 1) |-> SubSeq(s, i, i + n - 1)]

\* seq.windows(0) panics ("window size must be non-zero")
windows_panics(n) == n = 0

\* mutant: stop at the first matching window
RECURSIVE scan_windows_first_only(_, _, _)
scan_windows_first_only(w, s, k) ==
  IF k > Len(w) THEN << >>
  ELSE IF w[k] = s THEN << Range(k - 1, (k - 1) + Len(w[k])) >>
       ELSE scan_windows_first_only(w, s, k + 1)

\* inner loop: for (idx, w) in windows.enumerate() { if w == *s { push } }
\* k is idx + 1
RECURSIVE scan_windows(_, _, _)
scan_windows(w, s, k) ==
  IF k > Len(w) THEN << >>
  ELSE (IF w[k] = s THEN << Range(k - 1, (k - 1) + Len(w[k])) >> ELSE << >>)
       \o scan_windows(w, s, k + 1)

\* outer loop: for s in sub_seq, appending to private_ranges
RECURSIVE scan_secrets(_, _, _)
scan_secrets(s, subs, j) ==
  IF j > Len(subs) THEN << >>
  ELSE scan_windows(windows(s, Len(subs[j])), subs[j], 1)
       \o scan_secrets(s, subs, j + 1)

\* the first loop panics as soon as it reaches an empty secret
scan_panics(subs) == \E j \in 1..Len(subs) : windows_panics(Len(subs[j]))

\* insert r behind every element whose key is <= r.start (stable)
RECURSIVE insert_by_start(_, _)
insert_by_start(sorted, r) ==
  IF sorted = << >> THEN << r >>
  ELSE IF sorted[Len(sorted)].start <= r.start THEN Append(sorted, r)
       ELSE Append(insert_by_start(SubSeq(sorted, 1, Len(sorted) - 1), r),
                   sorted[Len(sorted)])

\* sorted_ranges.sort_by_key(|r| r.start): a stable sort on the start offset
RECURSIVE sort_by_key_start(_)
sort_by_key_start(rs) ==
  IF rs = << >> THEN << >>
  ELSE insert_by_start(sort_by_key_start(SubSeq(rs, 1, Len(rs) - 1)),
                       rs[Len(rs)])

\* mutant: also push when the gap is empty
gap_before_or_equal(r, last_end) == r.start >= last_end

\* if r.start > last_end
gap_before(r, last_end) == r.start > last_end

\* for r in sorted_ranges { if gap { push(last_end..r.start) } last_end = r.end }
\* returns the public ranges pushed so far and last_end
RECURSIVE fill_gaps(_, _, _, _)
fill_gaps(sorted, k, pub, last_end) ==
  IF k > Len(sorted) THEN [pub |-> pub, last_end |-> last_end]
  ELSE fill_gaps(sorted, k + 1,
                 IF gap_before(sorted[k], last_end)
                 THEN Append(pub, Range(last_end, sorted[k].start))
                 ELSE pub,
                 sorted[k].end)

\* mutant: the suffix after the last private range is forgotten
push_tail_never(pub, last_end, len) == pub

\* if last_end < seq.len() { public_ranges.push(last_end..seq.len()) }
push_tail(pub, last_end, len) ==
  IF last_end < len THEN Append(pub, Range(last_end, len)) ELSE pub

\* the value find_ranges returns when it does not panic: (public, private)
find_ranges(s, subs) ==
  LET private == scan_secrets(s, subs, 1)
      sorted  == sort_by_key_start(private)
      filled  == fill_gaps(sorted, 1, << >>, 0)
  IN  [public  |-> push_tail(filled.pub, filled.last_end, Len(s)),
       private |-> private]

\* a call of find_ranges that returns
FindRangesReturn ==
  /\ pc = "call"
  /\ ~scan_panics(sub_seq)
  /\ pc' = "returned"
  /\ public_ranges' = find_ranges(seq, sub_seq).public
  /\ private_ranges' = find_ranges(seq, sub_seq).private
  /\ UNCHANGED << seq, sub_seq >>
  /\ UNCHANGED << mainVars, garbleVars >>

\* a call of find_ranges that panics in seq.windows(0)
FindRangesPanic ==
  /\ pc = "call"
  /\ scan_panics(sub_seq)
  /\ pc' = "panicked"
  /\ UNCHANGED << seq, sub_seq, public_ranges, private_ranges >>
  /\ UNCHANGED << mainVars, garbleVars >>

\* ------------------------------------------------- main, lines 197 to 229

\* outcome of a fallible call into the prover or the file system
Results == {"Ok", "Err"}

\* mutant: the error is discarded and the run goes on
unwrap_ignores_err(res, next) == next

\* Result::unwrap(): go on with the value, or panic and end the process
unwrap(res, next) == IF res = "Ok" THEN next ELSE "panicked"

\* public_ranges.iter().chain(private_ranges.iter())
chain == public_ranges \o private_ranges

\* the step whose result was an error, remembered for the properties
failed(res, step) == IF res = "Err" THEN step ELSE failed_at

\* find_ranges(prover.sent_transcript().data(), &[access, auth, csrf])
MainFindRanges ==
  /\ mpc = "find_ranges"
  /\ ~scan_panics(sub_seq)
  /\ pc' = "returned"
  /\ public_ranges' = find_ranges(seq, sub_seq).public
  /\ private_ranges' = find_ranges(seq, sub_seq).private
  /\ mpc' = "commit_sent"
  /\ cursor' = 1
  /\ UNCHANGED << seq, sub_seq, sent_commits, recv_len, recv_commits,
                  finalized, file, failed_at >>
  /\ UNCHANGED garbleVars

\* the same call when one of the tokens is empty
MainFindRangesPanic ==
  /\ mpc = "find_ranges"
  /\ scan_panics(sub_seq)
  /\ pc' = "panicked"
  /\ mpc' = "panicked"
  /\ failed_at' = "find_ranges"
  /\ UNCHANGED << seq, sub_seq, public_ranges, private_ranges, cursor,
                  sent_commits, recv_len, recv_commits, finalized, file >>
  /\ UNCHANGED garbleVars

\* one iteration: prover.add_commitment_sent(range.clone()).unwrap()
MainCommitSent ==
  /\ mpc = "commit_sent"
  /\ cursor <= Len(chain)
  /\ \E res \in Results :
       /\ sent_commits' = IF res = "Ok" THEN Append(sent_commits, chain[cursor])
                          ELSE sent_commits
       /\ mpc' = unwrap(res, "commit_sent")
       /\ failed_at' = failed(res, "commit_sent")
  /\ cursor' = cursor + 1
  /\ UNCHANGED << rangeVars, recv_len, recv_commits, finalized, file >>
  /\ UNCHANGED garbleVars

\* the iterator is exhausted: recv_len is read and
\* prover.add_commitment_recv(0..recv_len as u32).unwrap() is called
MainCommitRecv ==
  /\ mpc = "commit_sent"
  /\ cursor > Len(chain)
  /\ \E n \in 0..MaxRecvLen, res \in Results :
       /\ recv_len' = n
       /\ recv_commits' = IF res = "Ok" THEN Append(recv_commits, Range(0, n))
                          ELSE recv_commits
       /\ mpc' = unwrap(res, "finalize")
       /\ failed_at' = failed(res, "commit_recv")
  /\ UNCHANGED << rangeVars, cursor, sent_commits, finalized, file >>
  /\ UNCHANGED garbleVars

\* prover.finalize().await.unwrap()
MainFinalize ==
  /\ mpc = "finalize"
  /\ \E res \in Results :
       /\ finalized' = (res = "Ok")
       /\ mpc' = unwrap(res, "create_file")
       /\ failed_at' = failed(res, "finalize")
  /\ UNCHANGED << rangeVars, cursor, sent_commits, recv_len, recv_commits,
                  file >>
  /\ UNCHANGED garbleVars

\* tokio::fs::File::create("twitter_dm.json").await.unwrap()
MainCreateFile ==
  /\ mpc = "create_file"
  /\ \E res \in Results :
       /\ file' = IF res = "Ok" THEN "created" ELSE file
       /\ mpc' = unwrap(res, "write_all")
       /\ failed_at' = failed(res, "create_file")
  /\ UNCHANGED << rangeVars, cursor, sent_commits, recv_len, recv_commits,
                  finalized >>
  /\ UNCHANGED garbleVars

\* file.write_all(to_string_pretty(&notarized_session).unwrap()).await.unwrap()
MainWriteAll ==
  /\ mpc = "write_all"
  /\ \E res \in Results :
       /\ file' = IF res = "Ok" THEN "written" ELSE file
       /\ mpc' = unwrap(res, "done")
       /\ failed_at' = failed(res, "write_all")
  /\ UNCHANGED << rangeVars, cursor, sent_commits, recv_len, recv_commits,
                  finalized >>
  /\ UNCHANGED garbleVars

MainIdle ==
  /\ mpc = "idle" /\ cursor = 0 /\ sent_commits = << >> /\ recv_len = 0
  /\ recv_commits = << >> /\ finalized = FALSE /\ file = "absent"
  /\ failed_at = "none"

Circuits == 1..MaxCircuits

GarbleIdle ==
  /\ gc = [c \in Circuits |-> "none"]
  /\ log = [c \in Circuits |-> {}]
  /\ ret = [op |-> "none", circ |-> 0, res |-> "none", phase |-> "none"]

\* ------------------------------------------------ garble role operations

\* gc_state::{Full, Partial, Evaluated, Compressed}
Phases == {"Full", "Partial", "Evaluated", "Compressed"}

\* mutant: generate hands out the wire form directly
generate_returns_partial == "Partial"

\* Generator::generate -> Result<GarbledCircuit<gc_state::Full>, GCError>
generate_returns == "Full"

\* Evaluator::evaluate(circ: GarbledCircuit<gc_state::Partial>, ..)
evaluate_accepts == "Partial"

\* Evaluator::evaluate -> Result<GarbledCircuit<gc_state::Evaluated>, GCError>
evaluate_returns == "Evaluated"

\* Validator::validate_evaluated(circ: GarbledCircuit<gc_state::Evaluated>, ..)
validate_evaluated_accepts == "Evaluated"

\* Validator::validate_evaluated -> Result<GarbledCircuit<Evaluated>, GCError>
validate_evaluated_returns == "Evaluated"

\* Validator::validate_compressed(circ: GarbledCircuit<gc_state::Compressed>, ..)
validate_compressed_accepts == "Compressed"

\* Validator::validate_compressed -> Result<GarbledCircuit<Compressed>, GCError>
validate_compressed_returns == "Compressed"

\* mutant: compress takes a circuit that was never evaluated
compress_accepts_partial == "Partial"

\* Compressor::compress(circ: GarbledCircuit<gc_state::Evaluated>)
compress_accepts == "Evaluated"

\* mutant: compress hands back a circuit of an earlier phase
compress_returns_partial == "Partial"

\* Compressor::compress -> Result<GarbledCircuit<gc_state::Compressed>, GCError>
compress_returns == "Compressed"

\* The argument is moved into the call: on Err (a GCError) the circuit is
\* gone, on Ok the returned value replaces it.
after_call(c, res, returns) ==
  [gc EXCEPT ![c] = IF res = "Ok" THEN returns ELSE "dropped"]

\* history of the operations applied to circuit c and their results
logged(c, op, res) == [log EXCEPT ![c] = @ \cup {[op |-> op, res |-> res]}]

\* the Result handed back to the caller of a role operation
returned(op, c, res, returns) ==
  [op |-> op, circ |-> c, res |-> res,
   phase |-> IF res = "Ok" THEN returns ELSE "none"]

\* Generator::generate(circ, input_labels): takes no garbled circuit; on Err
\* nothing is created
generate(c) ==
  /\ gc[c] = "none"
  /\ \E res \in Results :
       /\ gc' = [gc EXCEPT ![c] = IF res = "Ok" THEN generate_returns ELSE "none"]
       /\ log' = logged(c, "generate", res)
       /\ ret' = returned("generate", c, res, generate_returns)
  /\ UNCHANGED << rangeVars, mainVars >>

\* the generator-local projection of a Full circuit to its wire form
project(c) ==
  /\ gc[c] = "Full"
  /\ gc' = [gc EXCEPT ![c] = "Partial"]
  /\ log' = logged(c, "project", "Ok")
  /\ ret' = returned("project", c, "Ok", "Partial")
  /\ UNCHANGED << rangeVars, mainVars >>

\* Evaluator::evaluate(circ, input_labels)
evaluate(c) ==
  /\ gc[c] = evaluate_accepts
  /\ \E res \in Results :
       /\ gc' = after_call(c, res, evaluate_returns)
       /\ log' = logged(c, "evaluate", res)
       /\ ret' = returned("evaluate", c, res, evaluate_returns)
  /\ UNCHANGED << rangeVars, mainVars >>

\* Validator::validate_evaluated(circ, opening)
validate_evaluated(c) ==
  /\ gc[c] = validate_evaluated_accepts
  /\ \E res \in Results :
       /\ gc' = after_call(c, res, validate_evaluated_returns)
       /\ log' = logged(c, "validate_evaluated", res)
       /\ ret' = returned("validate_evaluated", c, res,
                          validate_evaluated_returns)
  /\ UNCHANGED << rangeVars, mainVars >>

\* Validator::validate_compressed(circ, opening)
validate_compressed(c) ==
  /\ gc[c] = validate_compressed_accepts
  /\ \E res \in Results :
       /\ gc' = after_call(c, res, validate_compressed_returns)
       /\ log' = logged(c, "validate_compressed", res)
       /\ ret' = returned("validate_compressed", c, res,
                          validate_compressed_returns)
  /\ UNCHANGED << rangeVars, mainVars >>

\* Compressor::compress(circ)
compress(c) ==
  /\ gc[c] = compress_accepts
  /\ \E res \in Results :
       /\ gc' = after_call(c, res, compress_returns)
       /\ log' = logged(c, "compress", res)
       /\ ret' = returned("compress", c, res, compress_returns)
  /\ UNCHANGED << rangeVars, mainVars >>

Generate == \E c \in Circuits : generate(c)
Project == \E c \in Circuits : project(c)
Evaluate == \E c \in Circuits : evaluate(c)
ValidateEvaluated == \E c \in Circuits : validate_evaluated(c)
ValidateCompressed == \E c \in Circuits : validate_compressed(c)
Compress == \E c \in Circuits : compress(c)

\* ---------------------------------------------------------- specifications

RangesIdle ==
  /\ seq = << >> /\ sub_seq = << >> /\ pc = "idle"
  /\ public_ranges = << >> /\ private_ranges = << >>

\* find_ranges applied once to every transcript and secret list in the bounds
Init ==
  /\ seq \in SeqsUpTo(Bytes, MaxLen)
  /\ sub_seq \in SeqsUpTo(SeqsUpTo(Bytes, MaxSecretLen), MaxSecrets)
  /\ pc = "call"
  /\ public_ranges = << >>
  /\ private_ranges = << >>
  /\ MainIdle
  /\ GarbleIdle

Next ==
  \/ FindRangesReturn
  \/ FindRangesPanic

Spec == Init /\ [][Next]_vars

\* main from the call of find_ranges on: the sent transcript and the three
\* tokens are what the environment and the TLS session made them
InitMain ==
  /\ seq \in SeqsUpTo(Bytes, MainMaxLen)
  /\ sub_seq \in SeqsOfLen(SeqsUpTo(Bytes, MainMaxTokenLen), 3)
  /\ pc = "call"
  /\ public_ranges = << >>
  /\ private_ranges = << >>
  /\ mpc = "find_ranges" /\ cursor = 0 /\ sent_commits = << >> /\ recv_len = 0
  /\ recv_commits = << >> /\ finalized = FALSE /\ file = "absent"
  /\ failed_at = "none"
  /\ GarbleIdle

NextMain ==
  \/ MainFindRanges
  \/ MainFindRangesPanic
  \/ MainCommitSent
  \/ MainCommitRecv
  \/ MainFinalize
  \/ MainCreateFile
  \/ MainWriteAll

SpecMain == InitMain /\ [][NextMain]_vars

InitGarble == RangesIdle /\ MainIdle /\ GarbleIdle

NextGarble ==
  \/ Generate
  \/ Project
  \/ Evaluate
  \/ ValidateEvaluated
  \/ ValidateCompressed
  \/ Compress

SpecGarble == InitGarble /\ [][NextGarble]_vars

\* ------------------------------------------------------------- properties

\* offset off lies in the half-open range r
Covers(r, off) == r.start <= off /\ off < r.end

\* the ranges of a list, as a set
Elems(rs) == {rs[i] : i \in DOMAIN rs}

\* the byte offsets of the transcript
Offsets == 0..(Len(seq) - 1)

InPublic(off) == \E r \in Elems(public_ranges) : Covers(r, off)

InPrivate(off) == \E r \in Elems(private_ranges) : Covers(r, off)

\* two ranges share at least one offset
Overlap(a, b) ==
  /\ a.start < a.end /\ b.start < b.end
  /\ a.start < b.end /\ b.start < a.end

SortedByStart(rs) ==
  \A i, j \in DOMAIN rs : i < j => rs[i].start <= rs[j].start

MutuallyDisjoint(rs) ==
  \A i, j \in DOMAIN rs : i < j => ~Overlap(rs[i], rs[j])

\* the non-empty byte string s is a substring of the transcript at offset i
Occurs(s, i) ==
  /\ Len(s) > 0
  /\ i + Len(s) <= Len(seq)
  /\ \A k \in 1..Len(s) : seq[i + k] = s[k]

\* (index of a secret in the list, offset) for every occurrence of a secret
OccurrencePairs ==
  {p \in (DOMAIN sub_seq) \X (0..Len(seq)) : Occurs(sub_seq[p[1]], p[2])}

NoSecretOccurs == OccurrencePairs = {}

\* the secret list holds no secret twice, as a set of secrets does
DistinctSecrets ==
  \A i, j \in DOMAIN sub_seq : i # j => sub_seq[i] # sub_seq[j]

\* some private range lies inside another one, or starts with it and is shorter
NestedPrivate ==
  \E i, j \in DOMAIN private_ranges :
    /\ i # j
    /\ private_ranges[i].start <= private_ranges[j].start
    /\ private_ranges[j].end < private_ranges[i].end

\* C1: in the result of find_ranges no byte offset of the transcript lies both
\* in a public range and in a private range.
C1_NoOffsetPublicAndPrivate ==
  pc = "returned" => \A off \in Offsets : ~(InPublic(off) /\ InPrivate(off))

\* C2: the ranges returned by find_ranges leave no gap: every offset of the
\* transcript lies in a public or a private range, and no range ends past the
\* transcript's length.
C2_NoGapNoOverrun ==
  pc = "returned" =>
    /\ \A off \in Offsets : InPublic(off) \/ InPrivate(off)
    /\ \A r \in Elems(public_ranges) \cup Elems(private_ranges) :
         0 <= r.start /\ r.start <= r.end /\ r.end <= Len(seq)

C2_Witness ==
  /\ pc = "returned"
  /\ NestedPrivate
  /\ Len(public_ranges) >= 1
  /\ Len(seq) = MaxLen

\* C3: each list returned by find_ranges, the public one and the private one,
\* is sorted by start offset and its ranges are mutually disjoint.
C3_BothListsSortedAndDisjoint ==
  (pc = "returned" /\ DistinctSecrets) =>
    /\ SortedByStart(public_ranges) /\ MutuallyDisjoint(public_ranges)
    /\ SortedByStart(private_ranges) /\ MutuallyDisjoint(private_ranges)

\* C4: the private ranges returned by find_ranges are exactly the ranges
\* [i, i + len(s)) of the occurrences of the secrets in the transcript, one
\* entry per occurrence; a single secret occurring once strictly inside the
\* transcript gives private = [start, end) and public = [0, start), [end, len).
C4_PrivateRangesAreTheOccurrences ==
  pc = "returned" =>
    /\ Elems(private_ranges) =
         {Range(p[2], p[2] + Len(sub_seq[p[1]])) : p \in OccurrencePairs}
    /\ Len(private_ranges) = Cardinality(OccurrencePairs)
    /\ \A start \in 1..Len(seq) :
         (/\ Len(sub_seq) = 1
          /\ OccurrencePairs = {<< 1, start >>}
          /\ start + Len(sub_seq[1]) < Len(seq))
         => /\ private_ranges = << Range(start, start + Len(sub_seq[1])) >>
            /\ public_ranges = << Range(0, start),
                                  Range(start + Len(sub_seq[1]), Len(seq)) >>

C4_Witness ==
  /\ pc = "returned"
  /\ \E i, j \in DOMAIN private_ranges :
       /\ i < j
       /\ private_ranges[i] # private_ranges[j]
       /\ Overlap(private_ranges[i], private_ranges[j])
       /\ private_ranges[i].end - private_ranges[i].start
            = private_ranges[j].end - private_ranges[j].start

\* C5: when no secret occurs in the transcript (the empty secret list and a
\* list holding an empty secret included), find_ranges returns normally, with
\* no private range and with the single public range [0, len) for a non-empty
\* transcript and no range at all for an empty one.
C5_NoMatchReturnsWholePublicRange ==
  (pc \in {"returned", "panicked"} /\ NoSecretOccurs) =>
    /\ pc = "returned"
    /\ private_ranges = << >>
    /\ public_ranges =
         IF Len(seq) > 0 THEN << Range(0, Len(seq)) >> ELSE << >>

\* C10: for non-empty secrets the public ranges returned by find_ranges are
\* all non-empty, and each one starts strictly after the end of the one before
\* it (strictly increasing, pairwise disjoint, non-adjacent).
C10_PublicRangesStrictlySeparated ==
  (pc = "returned" /\ \A j \in DOMAIN sub_seq : Len(sub_seq[j]) > 0) =>
    /\ \A i \in DOMAIN public_ranges :
         public_ranges[i].start < public_ranges[i].end
    /\ \A i \in DOMAIN public_ranges :
         i > 1 => public_ranges[i - 1].end < public_ranges[i].start

C10_Witness ==
  /\ pc = "returned"
  /\ Len(public_ranges) >= 2
  /\ \E i, j \in DOMAIN private_ranges :
       i < j /\ Overlap(private_ranges[i], private_ranges[j])

\* C9: twitter_dm.json exists only after add_commitment_sent succeeded for
\* every public and private range of find_ranges, add_commitment_recv succeeded
\* for the single range [0, recv_len) and finalize succeeded; a failure of any
\* of these steps ends the run with no artifact.
C9_ArtifactOnlyAfterEveryStepSucceeded ==
  /\ file # "absent" =>
       /\ pc = "returned"
       /\ sent_commits = public_ranges \o private_ranges
       /\ recv_commits = << Range(0, recv_len) >>
       /\ finalized
  /\ failed_at # "none" => mpc = "panicked"
  /\ failed_at \in {"find_ranges", "commit_sent", "commit_recv", "finalize"}
       => file = "absent"

C9_Witness ==
  /\ file = "written"
  /\ mpc = "done"
  /\ Len(public_ranges) >= 1
  /\ Len(private_ranges) >= 2

\* position of a phase in the order Full, Partial, Evaluated, Compressed
Rank(p) ==
  CASE p = "Full" -> 0
    [] p = "Partial" -> 1
    [] p = "Evaluated" -> 2
    [] p = "Compressed" -> 3
    [] OTHER -> 0 - 1

Done(c, op, res) == [op |-> op, res |-> res] \in log[c]

\* C6 as amended: the circuit generate hands its caller is in phase Full.
C6_GenerateReturnsFull ==
  (ret.op = "generate" /\ ret.res = "Ok") =>
    ret.phase = "Full" /\ gc[ret.circ] = "Full"

\* C6: the circuit generate hands its caller is in phase Partial, and no
\* circuit in phase Full is ever held outside the call.
C6_GenerateReturnsPartial ==
  /\ (ret.op = "generate" /\ ret.res = "Ok") => ret.phase = "Partial"
  /\ \A c \in Circuits : gc[c] # "Full"

C6_Witness ==
  /\ ret.op = "generate" /\ ret.res = "Ok"
  /\ \E c \in Circuits : Done(c, "generate", "Err")

\* C7: no step of a role operation moves a circuit's phase backward in the
\* order Full, Partial, Evaluated, Compressed: evaluate takes Partial to
\* Evaluated, compress takes Evaluated to Compressed, the two validate
\* operations keep the phase, and a Compressed circuit never gets another phase.
C7_PhaseNeverMovesBackward ==
  [][ /\ \A c \in Circuits :
           (gc[c] \in Phases /\ gc'[c] \in Phases)
             => Rank(gc'[c]) >= Rank(gc[c])
      /\ \A c \in Circuits :
           gc[c] = "Compressed" => gc'[c] \in {"Compressed", "dropped"}
      /\ (ret'.op = "evaluate" /\ ret'.res = "Ok")
           => gc[ret'.circ] = "Partial" /\ gc'[ret'.circ] = "Evaluated"
      /\ (ret'.op = "compress" /\ ret'.res = "Ok")
           => gc[ret'.circ] = "Evaluated" /\ gc'[ret'.circ] = "Compressed"
      /\ (ret'.op \in {"validate_evaluated", "validate_compressed"}
          /\ ret'.res = "Ok")
           => gc'[ret'.circ] = gc[ret'.circ]
    ]_vars

C7_Witness ==
  \E c \in Circuits :
    /\ gc[c] = "Compressed"
    /\ Done(c, "validate_evaluated", "Ok")
    /\ Done(c, "validate_compressed", "Ok")

\* C8: a circuit that compress, validate_evaluated or validate_compressed was
\* applied to was successfully evaluated before, validate_compressed also
\* follows a successful compress, and a circuit whose evaluate failed is never
\* passed to validation or compression.
C8_ValidateAndCompressFollowEvaluate ==
  \A c \in Circuits :
    /\ (\E e \in log[c] :
          e.op \in {"compress", "validate_evaluated", "validate_compressed"})
         => Done(c, "evaluate", "Ok")
    /\ (\E e \in log[c] : e.op = "validate_compressed")
         => Done(c, "compress", "Ok")
    /\ Done(c, "evaluate", "Err") =>
         ~ \E e \in log[c] :
             e.op \in {"compress", "validate_evaluated", "validate_compressed"}

C8_Witness ==
  \E c, d \in Circuits :
    /\ Done(c, "validate_compressed", "Ok")
    /\ Done(d, "evaluate", "Err")

====
